---- MODULE Spec2Model ----
(***************************************************************************)
(* Model of the deck-editing engine of mcnp_funcs.py: the three editors    *)
(* change_rod_height, change_cell_densities and change_cell_and_mat_temps, *)
(* their line rewriters and the nearest-value resolver.                    *)
(*                                                                         *)
(* Deck lines are strings without their trailing newline; every string     *)
(* written to an output deck is one line of it.  Python's str methods are  *)
(* modelled character by character on these strings.                       *)
(***************************************************************************)
EXTENDS Integers, Sequences, FiniteSets, TLC

(***************************************************************************)
(* Python str operations                                                   *)
(***************************************************************************)

\* `sub in s`
Contains(sub, s) ==
    \E i \in 1..(Len(s) - Len(sub) + 1) : SubSeq(s, i, i + Len(sub) - 1) = sub

\* s.startswith(p)
StartsWith(s, p) ==
    Len(s) >= Len(p) /\ SubSeq(s, 1, Len(p)) = p

\* line[0] of a line read from the file: a blank line is "\n"
FirstChar(line) ==
    IF line = "" THEN "\n" ELSE SubSeq(line, 1, 1)

IsSpace(c) ==
    c \in {" ", "\t", "\n"}

IsDigit(c) ==
    c \in {"0", "1", "2", "3", "4", "5", "6", "7", "8", "9"}

RECURSIVE SplitFrom(_, _, _, _)
SplitFrom(s, i, cur, acc) ==
    IF i > Len(s)
    THEN IF cur = "" THEN acc ELSE Append(acc, cur)
    ELSE LET c == SubSeq(s, i, i) IN
         IF IsSpace(c)
         THEN SplitFrom(s, i + 1, "", IF cur = "" THEN acc ELSE Append(acc, cur))
         ELSE SplitFrom(s, i + 1, cur \o c, acc)

\* s.split(): the whitespace-delimited tokens
split(s) ==
    SplitFrom(s, 1, "", <<>>)

RECURSIVE SplitOnFrom(_, _, _, _, _)
SplitOnFrom(s, d, i, cur, acc) ==
    IF i > Len(s)
    THEN Append(acc, cur)
    ELSE LET c == SubSeq(s, i, i) IN
         IF c = d
         THEN SplitOnFrom(s, d, i + 1, "", Append(acc, cur))
         ELSE SplitOnFrom(s, d, i + 1, cur \o c, acc)

\* s.split(d) for a one-character delimiter d
split_on(s, d) ==
    SplitOnFrom(s, d, 1, "", <<>>)

RECURSIVE join(_, _)
\* sep.join(entries)
join(sep, entries) ==
    IF Len(entries) = 0 THEN ""
    ELSE IF Len(entries) = 1 THEN entries[1]
    ELSE entries[1] \o sep \o join(sep, Tail(entries))

RECURSIVE ReplaceFrom(_, _, _, _)
ReplaceFrom(s, i, old, new) ==
    IF i > Len(s) THEN ""
    ELSE IF i + Len(old) - 1 <= Len(s) /\ SubSeq(s, i, i + Len(old) - 1) = old
    THEN new \o ReplaceFrom(s, i + Len(old), old, new)
    ELSE SubSeq(s, i, i) \o ReplaceFrom(s, i + 1, old, new)

\* s.replace(old, new), old non-empty: every non-overlapping occurrence
replace(s, old, new) ==
    ReplaceFrom(s, 1, old, new)

RECURSIVE rstrip(_)
\* s.rstrip()
rstrip(s) ==
    IF s # "" /\ IsSpace(SubSeq(s, Len(s), Len(s)))
    THEN rstrip(SubSeq(s, 1, Len(s) - 1))
    ELSE s

RECURSIVE Digits(_)
\* ''.join(filter(lambda i: i.isdigit(), s))
Digits(s) ==
    IF s = "" THEN ""
    ELSE LET c == SubSeq(s, 1, 1) IN
         (IF IsDigit(c) THEN c ELSE "") \o Digits(SubSeq(s, 2, Len(s)))

RECURSIVE Without(_, _)
\* ''.join(c for c in s if c not in d)
Without(s, d) ==
    IF s = "" THEN ""
    ELSE LET c == SubSeq(s, 1, 1) IN
         (IF c = d THEN "" ELSE c) \o Without(SubSeq(s, 2, Len(s)), d)

RECURSIVE zfill(_, _)
\* s.zfill(w) of an unsigned numeral
zfill(s, w) ==
    IF Len(s) >= w THEN s ELSE zfill("0" \o s, w)

\* entries.index(x): the first position (1-based here) holding x
IndexOf(entries, x) ==
    CHOOSE i \in 1..Len(entries) :
        entries[i] = x /\ \A j \in 1..(i - 1) : entries[j] # x

(***************************************************************************)
(* Python numbers.  A float is held as an integer count of 1e-5 (Scale):   *)
(* the deck coordinates and densities of the model have at most 5          *)
(* decimals, so float(), the sum and round(.., 5) are exact in this form.  *)
(***************************************************************************)

Scale == 100000

DigitVal(c) ==
    CASE c = "0" -> 0 [] c = "1" -> 1 [] c = "2" -> 2 [] c = "3" -> 3
      [] c = "4" -> 4 [] c = "5" -> 5 [] c = "6" -> 6 [] c = "7" -> 7
      [] c = "8" -> 8 [] c = "9" -> 9

DigitChar(d) ==
    CASE d = 0 -> "0" [] d = 1 -> "1" [] d = 2 -> "2" [] d = 3 -> "3"
      [] d = 4 -> "4" [] d = 5 -> "5" [] d = 6 -> "6" [] d = 7 -> "7"
      [] d = 8 -> "8" [] d = 9 -> "9"

AllDigits(s) ==
    \A i \in 1..Len(s) : IsDigit(SubSeq(s, i, i))

RECURSIVE NatVal(_)
NatVal(s) ==
    IF s = "" THEN 0
    ELSE 10 * NatVal(SubSeq(s, 1, Len(s) - 1)) + DigitVal(SubSeq(s, Len(s), Len(s)))

RECURSIVE str_nat(_)
\* str(n) of an int n >= 0
str_nat(n) ==
    IF n < 10 THEN DigitChar(n) ELSE str_nat(n \div 10) \o DigitChar(n % 10)

\* str(n) of an int
str_int(n) ==
    IF n < 0 THEN "-" \o str_nat(0 - n) ELSE str_nat(n)

Unsigned(tok) ==
    IF tok # "" /\ SubSeq(tok, 1, 1) \in {"-", "+"} THEN SubSeq(tok, 2, Len(tok)) ELSE tok

\* whether float(tok) succeeds: [sign] digits [. digits], at least one digit
IsFloat(tok) ==
    LET u     == Unsigned(tok)
        parts == split_on(u, ".")
    IN  /\ Len(parts) \in {1, 2}
        /\ \A k \in 1..Len(parts) : AllDigits(parts[k])
        /\ \E k \in 1..Len(parts) : parts[k] # ""
        /\ (Len(parts) = 2 => Len(parts[2]) <= 5)

RECURSIVE PadRight(_, _)
PadRight(s, w) ==
    IF Len(s) >= w THEN s ELSE PadRight(s \o "0", w)

\* float(tok), in units of 1e-5
float(tok) ==
    LET u     == Unsigned(tok)
        parts == split_on(u, ".")
        ip    == NatVal(parts[1])
        fp    == IF Len(parts) = 2 THEN NatVal(PadRight(parts[2], 5)) ELSE 0
        mag   == ip * Scale + fp
    IN  IF tok # "" /\ SubSeq(tok, 1, 1) = "-" THEN 0 - mag ELSE mag

RECURSIVE StripZeros(_)
StripZeros(s) ==
    IF Len(s) > 1 /\ SubSeq(s, Len(s), Len(s)) = "0"
    THEN StripZeros(SubSeq(s, 1, Len(s) - 1))
    ELSE s

\* str(x) of a float x held in units of 1e-5 (repr: shortest digits, at
\* least one decimal, exponent form below 1e-4)
str_float(v) ==
    LET mag  == IF v < 0 THEN 0 - v ELSE v
        sign == IF v < 0 THEN "-" ELSE ""
    IN  IF mag > 0 /\ mag < 10
        THEN sign \o DigitChar(mag) \o "e-05"
        ELSE sign \o str_nat(mag \div Scale) \o "."
                  \o StripZeros(zfill(str_nat(mag % Scale), 5))

(***************************************************************************)
(* Module constants and the temperature tables.  A dict is the sequence of *)
(* its items in declaration order.  Temperatures are held in tenths of a   *)
(* kelvin (294 K is 2940), which makes the 0.1 K library key exact.        *)
(***************************************************************************)

\* 0.38 cm per percent, in units of 1e-5 cm
CM_PER_PERCENT_HEIGHT == 38000

WATER_MAT_CARD == 102

U235_TEMP_DICT ==
    << <<2940, "92235.80c">>, <<6000, "92235.81c">>, <<9000, "92235.82c">>,
       <<12000, "92235.83c">>, <<25000, "92235.84c">>, <<1, "92235.85c">>,
       <<2500, "92235.86c">>, <<770, "92235.67c">>, <<30000, "92235.68c">> >>

U238_TEMP_DICT ==
    << <<2940, "92238.80c">>, <<6000, "92238.81c">>, <<9000, "92238.82c">>,
       <<12000, "92238.83c">>, <<25000, "92238.84c">>, <<1, "92238.85c">>,
       <<2500, "92238.86c">>, <<770, "92238.67c">>, <<30000, "92238.68c">> >>

PU239_TEMP_DICT ==
    << <<2940, "94239.80c">>, <<6000, "94239.81c">>, <<9000, "94239.82c">>,
       <<12000, "94239.83c">>, <<25000, "94239.84c">>, <<1, "94239.85c">>,
       <<2500, "94239.86c">>, <<770, "94239.67c">>, <<30000, "94239.68c">> >>

ZR_TEMP_DICT ==
    << <<2940, "40000.66c">>, <<3000, "40000.56c">>, <<5870, "40000.58c">> >>

H1_TEMP_DICT ==
    << <<2940, "1001.80c">>, <<6000, "1001.81c">>, <<9000, "1001.82c">>,
       <<12000, "1001.83c">>, <<25000, "1001.84c">>, <<1, "1001.85c">>,
       <<2500, "1001.86c">> >>

HZR_TEMP_DICT ==
    << <<2940, "h/zr.20t">>, <<4000, "h/zr.21t">>, <<5000, "h/zr.22t">>,
       <<6000, "h/zr.23t">>, <<7000, "h/zr.24t">>, <<8000, "h/zr.25t">>,
       <<10000, "h/zr.26t">>, <<12000, "h/zr.27t">> >>

ZRH_TEMP_DICT ==
    << <<2940, "zr/h.30t">>, <<4000, "zr/h.31t">>, <<5000, "zr/h.32t">>,
       <<6000, "zr/h.33t">>, <<7000, "zr/h.34t">>, <<8000, "zr/h.35t">>,
       <<10000, "zr/h.36t">>, <<12000, "zr/h.37t">> >>

WATER_TEMP_DICT ==
    << <<2940, "lwtr.20t">>, <<3500, "lwtr.21t">>, <<4000, "lwtr.22t">>,
       <<4500, "lwtr.23t">>, <<5000, "lwtr.24t">>, <<5500, "lwtr.25t">>,
       <<6000, "lwtr.26t">>, <<6500, "lwtr.27t">>, <<8000, "lwtr.28t">> >>

\* list(d.keys())
keys(d) ==
    [i \in 1..Len(d) |-> d[i][1]]

\* list(d.values()), as the set `entry in list(d.values())` tests
values(d) ==
    {d[i][2] : i \in 1..Len(d)}

\* d[k] for a key k of d
item(d, k) ==
    d[CHOOSE i \in 1..Len(d) : d[i][1] = k][2]

Abs_signed(n) ==
    n

Abs(n) ==
    IF n < 0 THEN 0 - n ELSE n

RECURSIVE MinIndex_last(_, _, _, _)
MinIndex_last(lst, K, i, best) ==
    IF i > Len(lst) THEN best
    ELSE MinIndex_last(lst, K, i + 1,
                       IF Abs(lst[i] - K) <= Abs(lst[best] - K) THEN i ELSE best)

RECURSIVE MinIndex(_, _, _, _)
\* min(range(len(lst)), key=lambda i: abs(lst[i] - K)): the scan of min(),
\* which replaces its best index only by one with a strictly smaller key
MinIndex(lst, K, i, best) ==
    IF i > Len(lst) THEN best
    ELSE MinIndex(lst, K, i + 1,
                  IF Abs(lst[i] - K) < Abs(lst[best] - K) THEN i ELSE best)

find_closest_value_unclamped(lst, K) ==
    IF \A i \in 1..Len(lst) : lst[i] < K THEN K ELSE lst[MinIndex(lst, K, 2, 1)]

\* lst[min(range(len(lst)), key=lambda i: abs(lst[i] - K))], lst not empty
find_closest_value(lst, K) ==
    lst[MinIndex(lst, K, 2, 1)]

\* f"tmp={new_temp * MEV_PER_KELVIN}": the repr of the float product
\* K * 8.617e-11, for the temperatures (in tenths of a kelvin) of the model
tmp_attr(new_temp) ==
    CASE new_temp = 2940 -> "tmp=2.533398e-08"
      [] new_temp = 3500 -> "tmp=3.01595e-08"
      [] new_temp = 6000 -> "tmp=5.1702e-08"
      [] new_temp = 6500 -> "tmp=5.60105e-08"
      [] new_temp = 7500 -> "tmp=6.46275e-08"
      [] new_temp = 9000 -> "tmp=7.755299999999999e-08"

(***************************************************************************)
(* The line rewriters.  Each returns [err, line]: err is "none" and line   *)
(* the returned string, or err names the exception the call raises.        *)
(***************************************************************************)

Ok(s) ==
    [err |-> "none", line |-> s]

Raise(e) ==
    [err |-> e, line |-> ""]

\* entries with entries[i] = v (i is 0-based, as in the source)
SetEntry(entries, i, v) ==
    [entries EXCEPT ![i + 1] = v]

\* entries[a:b], a and b 0-based and non-negative
Slice(entries, a, b) ==
    LET hi == IF b < Len(entries) THEN b ELSE Len(entries) IN
    IF a >= hi THEN <<>> ELSE SubSeq(entries, a + 1, hi)

RodJoined(entries, n) ==
    join("   ", Slice(entries, 0, n)) \o " " \o join(" ", Slice(entries, n, Len(entries)))

edit_rod_height_code_percent(geometry, line, height) ==
    LET entries == split(line)
        idx     == IF geometry = "pz" THEN 2 ELSE 4
        n       == IF geometry = "pz" THEN 4 ELSE 7
    IN  IF Len(entries) <= idx THEN Raise("IndexError")
        ELSE IF ~IsFloat(entries[idx + 1]) THEN Raise("ValueError")
        ELSE Ok(RodJoined(
                 SetEntry(entries, idx, str_float(float(entries[idx + 1]) + height * Scale)),
                 n))

edit_rod_height_code(geometry, line, height) ==
    LET entries == split(line)
        idx     == IF geometry = "pz" THEN 2 ELSE 4
        n       == IF geometry = "pz" THEN 4 ELSE 7
    IN  IF Len(entries) <= idx THEN Raise("IndexError")
        ELSE IF ~IsFloat(entries[idx + 1]) THEN Raise("ValueError")
        ELSE Ok(RodJoined(
                 SetEntry(entries, idx,
                          str_float(float(entries[idx + 1]) + height * CM_PER_PERCENT_HEIGHT)),
                 n))

edit_cell_density_code(line, mat_card, new_density) ==
    LET entries == split(line) IN
    IF entries[2] = mat_card
    THEN IF Len(entries) < 3 THEN Raise("IndexError")
         ELSE Ok(join(" ", SetEntry(entries, 2, str_float(0 - new_density))))
    ELSE Ok(line)

\* entries.insert(entries.index(x), v)
InsertBefore(entries, x, v) ==
    LET i == IndexOf(entries, x) IN
    SubSeq(entries, 1, i - 1) \o <<v>> \o SubSeq(entries, i, Len(entries))

InEntries(x, entries) ==
    \E i \in 1..Len(entries) : entries[i] = x

edit_cell_temp_code(line, mat_card, new_temp) ==
    LET entries == split(line) IN
    IF entries[2] = mat_card
    THEN IF InEntries("$", entries)
         THEN Ok(join(" ", InsertBefore(entries, "$", tmp_attr(new_temp))))
         ELSE Ok(join(" ", Append(entries, tmp_attr(new_temp))))
    ELSE Ok(line)

\* The nuclide tables in the order of the if/elif chain of the for loop
NuclideTables ==
    <<U235_TEMP_DICT, U238_TEMP_DICT, PU239_TEMP_DICT, ZR_TEMP_DICT, H1_TEMP_DICT>>

InNuclideTable(entry) ==
    \E t \in 1..Len(NuclideTables) : entry \in values(NuclideTables[t])

\* The table of the first branch of the chain that entry satisfies
NuclideTableOf(entry) ==
    NuclideTables[CHOOSE t \in 1..Len(NuclideTables) :
                      /\ entry \in values(NuclideTables[t])
                      /\ \A u \in 1..(t - 1) : entry \notin values(NuclideTables[u])]

RECURSIVE MtLoop(_, _, _)
\* for i in range(0, len(entries)): the h/zr and zr/h branches; new_temp is
\* reassigned by each resolution and carried to the next
MtLoop(entries, i, new_temp) ==
    IF i > Len(entries) THEN entries
    ELSE IF StartsWith(entries[i], "h/zr")
    THEN LET t == find_closest_value(keys(HZR_TEMP_DICT), new_temp) IN
         MtLoop([entries EXCEPT ![i] = item(HZR_TEMP_DICT, t)], i + 1, t)
    ELSE IF StartsWith(entries[i], "zr/h")
    THEN LET t == find_closest_value(keys(ZRH_TEMP_DICT), new_temp) IN
         MtLoop([entries EXCEPT ![i] = item(ZRH_TEMP_DICT, t)], i + 1, t)
    ELSE MtLoop(entries, i + 1, new_temp)

\* line.split('$')[-1:1]
LastPiece(line) ==
    LET parts == split_on(line, "$") IN
    IF Len(parts) = 1 THEN <<parts[1]>> ELSE <<>>

edit_mat_temp_code_last(line, new_temp) ==
    LET entries == split(split_on(line, "$")[1])
        hits    == {i \in 1..Len(entries) : InNuclideTable(entries[i])}
    IN  IF hits # {}
        THEN LET i     == CHOOSE h \in hits : \A g \in hits : h >= g
                 entry == entries[i]
                 d     == NuclideTableOf(entry)
                 t     == find_closest_value(keys(d), new_temp)
             IN  Ok(rstrip(replace(line, entry, item(d, t))))
        ELSE IF Len(entries) = 0 THEN Raise("IndexError")
        ELSE IF StartsWith(entries[1], "mt")
        THEN Ok(rstrip(join(" ", MtLoop(entries, 1, new_temp)) \o " $ "
                       \o join(" ", LastPiece(line))))
        ELSE Ok("None")

\* The for loop returns at the first entry, in line order, that is a value
\* of a nuclide table; the mt branch is reached when no entry is
edit_mat_temp_code(line, new_temp) ==
    LET entries == split(split_on(line, "$")[1])
        hits    == {i \in 1..Len(entries) : InNuclideTable(entries[i])}
    IN  IF hits # {}
        THEN LET i     == CHOOSE h \in hits : \A g \in hits : h <= g
                 entry == entries[i]
                 d     == NuclideTableOf(entry)
                 t     == find_closest_value(keys(d), new_temp)
             IN  Ok(rstrip(replace(line, entry, item(d, t))))
        ELSE IF Len(entries) = 0 THEN Raise("IndexError")
        ELSE IF StartsWith(entries[1], "mt")
        THEN Ok(rstrip(join(" ", MtLoop(entries, 1, new_temp)) \o " $ "
                       \o join(" ", LastPiece(line))))
        ELSE Ok("None")

(***************************************************************************)
(* Call arguments.  rod_heights_dict is a record of int percentages.       *)
(* cell_densities_dict and cell_temps_dict are sequences of items in       *)
(* insertion order.  A key of cell_densities_dict is held with its Python  *)
(* type, [kind, text]: the int 102 is ["int", "102"] and the str '102' is  *)
(* ["str", "102"]; a density is a float in units of 1e-5.  The keys of     *)
(* cell_temps_dict are ints and its values temperatures in tenths of K.    *)
(***************************************************************************)

filepath == "/w"

inputs_folder_name == "inputs"

module_name == "coef_mod"

\* [*cell_densities_dict] / list(cell_temps_dict.keys())
DictKeys(d) ==
    {d[i].key : i \in 1..Len(d)}

\* d[k]
DictGet(d, k) ==
    d[CHOOSE i \in 1..Len(d) : d[i].key = k].val

\* `tok in mats_to_change`: a token is a str and equals only a str key
InMatsToChange(tok, cell_densities_dict) ==
    [kind |-> "str", text |-> tok] \in DictKeys(cell_densities_dict)

\* `tok in [str(m) for m in list(cell_temps_dict.keys())]`
InTempKeys(tok, cell_temps_dict) ==
    \E k \in DictKeys(cell_temps_dict) : str_int(k) = tok

rod_input_name(fp, folder, module, rod_heights_dict) ==
    fp \o "/" \o folder \o "/" \o module
       \o "-a" \o zfill(str_int(rod_heights_dict.safe), 3)
       \o "-h" \o zfill(str_int(rod_heights_dict.shim), 3)
       \o "-r" \o zfill(str_int(rod_heights_dict.reg), 3) \o ".i"

RECURSIVE DensSuffixes(_, _, _)
\* the loop over cell_densities_dict.items() that extends new_input_name
DensSuffixes(name, d, i) ==
    IF i > Len(d) THEN name
    ELSE DensSuffixes(split_on(name, ".")[1] \o "-m" \o d[i].key.text \o "-"
                          \o Without(str_float(d[i].val), ".") \o ".i",
                      d, i + 1)

dens_input_name(fp, folder, module, cell_densities_dict) ==
    DensSuffixes(fp \o "/" \o folder \o "/" \o module \o ".i", cell_densities_dict, 1)

\* int(K) of a temperature held in tenths of a kelvin
int_kelvin(t) ==
    t \div 10

temp_input_name(fp, folder, module, cell_temps_dict) ==
    fp \o "/" \o folder \o "/" \o module \o "-temp-"
       \o zfill(str_int(int_kelvin(cell_temps_dict[1].val)), 4) \o ".i"

(***************************************************************************)
(* The loop bodies.  Each takes the line read and the inside-block flags   *)
(* and returns the new flags, the lines written (wrote) and err: "none",   *)
(* or the exception that ends the call after those writes.                 *)
(***************************************************************************)

Commented_nospace(line) ==
    "c" \o line

\* f"c {line}": the original line, commented out
Commented(line) ==
    "c " \o line

RodBlock_token(line, end_marker, height) ==
    IF FirstChar(line) = "c"
    THEN [inside |-> ~Contains(end_marker, line), wrote |-> <<line>>, err |-> "none"]
    ELSE LET geometry ==
                 IF Contains("pz", line) /\ StartsWith(split(line)[1], "8") THEN "pz"
                 ELSE IF Contains("k/z", line) /\ StartsWith(split(line)[1], "8") THEN "k/z"
                 ELSE "none"
         IN  IF geometry = "none"
             THEN [inside |-> TRUE, wrote |-> <<line>>, err |-> "none"]
             ELSE LET r == edit_rod_height_code(geometry, line, height) IN
                  [inside |-> TRUE,
                   wrote  |-> IF r.err = "none" THEN <<r.line>> ELSE <<>>,
                   err    |-> r.err]

RodBlock_anyend(line, end_marker, height) ==
    IF FirstChar(line) = "c"
    THEN [inside |-> ~Contains("End of", line), wrote |-> <<line>>, err |-> "none"]
    ELSE LET geometry ==
                 IF Contains("pz", line) /\ StartsWith(FirstChar(line), "8") THEN "pz"
                 ELSE IF Contains("k/z", line) /\ StartsWith(FirstChar(line), "8") THEN "k/z"
                 ELSE "none"
         IN  IF geometry = "none"
             THEN [inside |-> TRUE, wrote |-> <<line>>, err |-> "none"]
             ELSE LET r == edit_rod_height_code(geometry, line, height) IN
                  [inside |-> TRUE,
                   wrote  |-> IF r.err = "none" THEN <<r.line>> ELSE <<>>,
                   err    |-> r.err]

\* The body shared by the three `if inside_block_<rod> == True:` branches
RodBlock(line, end_marker, height) ==
    IF FirstChar(line) = "c"
    THEN [inside |-> ~Contains(end_marker, line), wrote |-> <<line>>, err |-> "none"]
    ELSE LET geometry ==
                 IF Contains("pz", line) /\ StartsWith(FirstChar(line), "8") THEN "pz"
                 ELSE IF Contains("k/z", line) /\ StartsWith(FirstChar(line), "8") THEN "k/z"
                 ELSE "none"
         IN  IF geometry = "none"
             THEN [inside |-> TRUE, wrote |-> <<line>>, err |-> "none"]
             ELSE LET r == edit_rod_height_code(geometry, line, height) IN
                  [inside |-> TRUE,
                   wrote  |-> IF r.err = "none" THEN <<r.line>> ELSE <<>>,
                   err    |-> r.err]

RodFlags(safe, shim, reg) ==
    [safe |-> safe, shim |-> shim, reg |-> reg]

RodLine_safe(line, f, rod_heights_dict) ==
    IF ~f.safe /\ ~f.shim /\ ~f.reg
    THEN IF Contains("Safe Rod (", line)
         THEN [flags |-> RodFlags(TRUE, FALSE, FALSE), err |-> "none",
               wrote |-> <<"c Safe Rod (" \o str_int(rod_heights_dict.safe) \o "% withdrawn)">>]
         ELSE IF Contains("Shim Rod (", line)
         THEN [flags |-> RodFlags(FALSE, TRUE, FALSE), err |-> "none",
               wrote |-> <<"c Shim Rod (" \o str_int(rod_heights_dict.shim) \o "% withdrawn)">>]
         ELSE IF Contains("Reg Rod (", line)
         THEN [flags |-> RodFlags(FALSE, FALSE, TRUE), err |-> "none",
               wrote |-> <<"c Reg Rod (" \o str_int(rod_heights_dict.reg) \o "% withdrawn)">>]
         ELSE [flags |-> f, err |-> "none", wrote |-> <<line>>]
    ELSE IF f.safe
    THEN LET b == RodBlock(line, "End of Safe Rod", rod_heights_dict.safe) IN
         [flags |-> [f EXCEPT !.safe = b.inside], err |-> b.err, wrote |-> b.wrote]
    ELSE IF f.shim
    THEN LET b == RodBlock(line, "End of Shim Rod", rod_heights_dict.safe) IN
         [flags |-> [f EXCEPT !.shim = b.inside], err |-> b.err, wrote |-> b.wrote]
    ELSE LET b == RodBlock(line, "End of Reg Rod", rod_heights_dict.safe) IN
         [flags |-> [f EXCEPT !.reg = b.inside], err |-> b.err, wrote |-> b.wrote]

RodLine(line, f, rod_heights_dict) ==
    IF ~f.safe /\ ~f.shim /\ ~f.reg
    THEN IF Contains("Safe Rod (", line)
         THEN [flags |-> RodFlags(TRUE, FALSE, FALSE), err |-> "none",
               wrote |-> <<"c Safe Rod (" \o str_int(rod_heights_dict.safe) \o "% withdrawn)">>]
         ELSE IF Contains("Shim Rod (", line)
         THEN [flags |-> RodFlags(FALSE, TRUE, FALSE), err |-> "none",
               wrote |-> <<"c Shim Rod (" \o str_int(rod_heights_dict.shim) \o "% withdrawn)">>]
         ELSE IF Contains("Reg Rod (", line)
         THEN [flags |-> RodFlags(FALSE, FALSE, TRUE), err |-> "none",
               wrote |-> <<"c Reg Rod (" \o str_int(rod_heights_dict.reg) \o "% withdrawn)">>]
         ELSE [flags |-> f, err |-> "none", wrote |-> <<line>>]
    ELSE IF f.safe
    THEN LET b == RodBlock(line, "End of Safe Rod", rod_heights_dict.safe) IN
         [flags |-> [f EXCEPT !.safe = b.inside], err |-> b.err, wrote |-> b.wrote]
    ELSE IF f.shim
    THEN LET b == RodBlock(line, "End of Shim Rod", rod_heights_dict.shim) IN
         [flags |-> [f EXCEPT !.shim = b.inside], err |-> b.err, wrote |-> b.wrote]
    ELSE LET b == RodBlock(line, "End of Reg Rod", rod_heights_dict.reg) IN
         [flags |-> [f EXCEPT !.reg = b.inside], err |-> b.err, wrote |-> b.wrote]

DensLine(line, inside, cell_densities_dict) ==
    LET toks == split(line) IN
    IF ~inside
    THEN IF Contains("Begin Cells", line)
         THEN [inside |-> TRUE, wrote |-> <<line>>, err |-> "none"]
         ELSE \* "Begin Surfaces" is tested here only, and sets the flag to False again
              [inside |-> FALSE, wrote |-> <<line>>, err |-> "none"]
    ELSE IF Len(toks) > 0 /\ toks[1] # "c"
    THEN IF Len(toks) < 2
         THEN [inside |-> TRUE, wrote |-> <<>>, err |-> "IndexError"]
         ELSE IF InMatsToChange(toks[2], cell_densities_dict)
         THEN LET r == edit_cell_density_code(line, toks[2],
                           DictGet(cell_densities_dict, [kind |-> "str", text |-> toks[2]]))
              IN  [inside |-> TRUE, err |-> r.err,
                   wrote  |-> IF r.err = "none" THEN <<Commented(line), r.line>>
                              ELSE <<Commented(line)>>]
         ELSE [inside |-> TRUE, wrote |-> <<line>>, err |-> "none"]
    ELSE [inside |-> TRUE, wrote |-> <<line>>, err |-> "none"]

TempFlags(cells, water_cells, surfs, mats) ==
    [cells |-> cells, water_cells |-> water_cells, surfs |-> surfs, mats |-> mats]

Pass(f, id, line) ==
    [flags |-> f, mat_id |-> id, wrote |-> <<line>>, err |-> "none"]

\* `if inside_block_cells:` of change_cell_and_mat_temps
TempCells(line, f, id, cell_temps_dict) ==
    LET toks == split(line) IN
    IF Len(toks) > 0 /\ toks[1] # "c"
    THEN IF Len(toks) < 2
         THEN [flags |-> f, mat_id |-> id, wrote |-> <<>>, err |-> "IndexError"]
         ELSE IF InTempKeys(toks[2], cell_temps_dict)
         THEN LET r == edit_cell_temp_code(line, toks[2],
                           DictGet(cell_temps_dict, NatVal(toks[2])))
              IN  [flags |-> f, mat_id |-> id, err |-> r.err,
                   wrote |-> <<Commented(line), r.line>>]
         ELSE Pass(f, id, line)
    ELSE Pass(f, id, line)

\* `if inside_block_water_cells:`
TempWaterCells(line, f, id, cell_temps_dict) ==
    LET toks == split(line) IN
    IF Len(toks) > 0 /\ toks[1] # "c" /\ Contains("imp:", line)
    THEN IF WATER_MAT_CARD \in DictKeys(cell_temps_dict)
         THEN [flags |-> f, mat_id |-> id, err |-> "none",
               wrote |-> <<Commented(line),
                           replace(line, "imp:n=1",
                                   "imp:n=1 " \o tmp_attr(DictGet(cell_temps_dict, WATER_MAT_CARD)))>>]
         ELSE [flags |-> f, mat_id |-> id, err |-> "KeyError", wrote |-> <<Commented(line)>>]
    ELSE Pass(f, id, line)

\* `if inside_block_mats:`
TempMats(line, f, id, cell_temps_dict) ==
    LET toks == split(line) IN
    IF Len(toks) > 0 /\ toks[1] # "c"
    THEN IF StartsWith(line, "m") /\ Digits(toks[1]) = ""
         THEN [flags |-> f, mat_id |-> id, wrote |-> <<>>, err |-> "ValueError"]
         ELSE LET new_id == IF StartsWith(line, "m") THEN NatVal(Digits(toks[1])) ELSE id IN
              IF new_id \in DictKeys(cell_temps_dict)
              THEN LET r == edit_mat_temp_code(line, DictGet(cell_temps_dict, new_id)) IN
                   [flags |-> f, mat_id |-> new_id, err |-> r.err,
                    wrote |-> IF r.err = "none" THEN <<Commented(line), r.line>>
                              ELSE <<Commented(line)>>]
              ELSE Pass(f, new_id, line)
    ELSE Pass(f, id, line)

TempLine_stale(line, f, id, cell_temps_dict) ==
    IF Contains("Begin Cells", line)
    THEN Pass(TempFlags(TRUE, FALSE, FALSE, FALSE), id, line)
    ELSE IF Contains("Begin Core Water Cells", line)
    THEN Pass(TempFlags(FALSE, TRUE, FALSE, FALSE), id, line)
    ELSE IF Contains("Begin Surfaces", line)
    THEN Pass(TempFlags(FALSE, FALSE, TRUE, FALSE), id, line)
    ELSE IF Contains("Begin Materials", line)
    THEN Pass(TempFlags(FALSE, FALSE, FALSE, TRUE), id, line)
    ELSE IF Contains("End Materials", line)
    THEN Pass(TempFlags(FALSE, FALSE, FALSE, FALSE), id, line)
    ELSE IF Contains("End Core Water Cells", line)
    THEN Pass(TempFlags(TRUE, f.water_cells, FALSE, FALSE), id, line)
    ELSE IF ~f.cells /\ ~f.surfs /\ ~f.mats /\ ~f.water_cells
    THEN Pass(f, id, line)
    ELSE IF f.cells THEN TempCells(line, f, id, cell_temps_dict)
    ELSE IF f.water_cells THEN TempWaterCells(line, f, id, cell_temps_dict)
    ELSE IF f.surfs THEN Pass(f, id, line)
    ELSE TempMats(line, f, id, cell_temps_dict)

TempLine(line, f, id, cell_temps_dict) ==
    IF Contains("Begin Cells", line)
    THEN Pass(TempFlags(TRUE, FALSE, FALSE, FALSE), id, line)
    ELSE IF Contains("Begin Core Water Cells", line)
    THEN Pass(TempFlags(FALSE, TRUE, FALSE, FALSE), id, line)
    ELSE IF Contains("Begin Surfaces", line)
    THEN Pass(TempFlags(FALSE, FALSE, TRUE, FALSE), id, line)
    ELSE IF Contains("Begin Materials", line)
    THEN Pass(TempFlags(FALSE, FALSE, FALSE, TRUE), id, line)
    ELSE IF Contains("End Materials", line)
    THEN Pass(TempFlags(FALSE, FALSE, FALSE, FALSE), id, line)
    ELSE IF Contains("End Core Water Cells", line)
    THEN Pass(TempFlags(TRUE, FALSE, FALSE, FALSE), id, line)
    ELSE IF ~f.cells /\ ~f.surfs /\ ~f.mats /\ ~f.water_cells
    THEN Pass(f, id, line)
    ELSE IF f.cells THEN TempCells(line, f, id, cell_temps_dict)
    ELSE IF f.water_cells THEN TempWaterCells(line, f, id, cell_temps_dict)
    ELSE IF f.surfs THEN Pass(f, id, line)
    ELSE TempMats(line, f, id, cell_temps_dict)

(***************************************************************************)
(* The workloads: one editor applied, call after call, to one base deck.   *)
(* A base deck is a sequence of up to MaxLines distinct lines of one pool. *)
(***************************************************************************)

MaxLines == 3

MaxCalls == 2

RECURSIVE SeqsOfLen(_, _)
SeqsOfLen(S, n) ==
    IF n = 0 THEN {<<>>}
    ELSE {Append(q, l) : q \in SeqsOfLen(S, n - 1), l \in S}

Distinct(q) ==
    \A i, j \in 1..Len(q) : q[i] = q[j] => i = j

SeqsUpTo(S, n) ==
    {q \in UNION {SeqsOfLen(S, k) : k \in 1..n} : Distinct(q)}

RodPools ==
    { {"c Safe Rod (0% Withdrawn)", "810 pz 5.12064 $ bottom",
       "811 k/z 0 0 5.12064 0.25 1 $ cone", "c End of Safe Rod", "End of Safe Rod"},
      {"c Safe Rod (0% Withdrawn)", "810 1 pz 5.12064 ... $ bottom", "c End of Safe Rod",
       "830 pz 2.5", "1 so 5"},
      {"c Shim Rod (0% Withdrawn)", "c Reg Rod (0% Withdrawn)", "c End of Shim Rod",
       "c End of Reg Rod", "820 pz 1.5"},
      {"c Safe Rod (0% Withdrawn)", "c Shim Rod (0% Withdrawn)", "820 pz 1.5",
       "c End of Shim Rod", " 812 pz 1.5"},
      {"c Reg Rod (0% Withdrawn)", "c end of reg rod", "c End of Reg Rod", "8 pz",
       "821 k/z 0 0 -1.25 0.25 -1"} }

DensPools ==
    { {"c Begin Cells", "101 102 -0.998 1 -2 imp:n=1", "c Begin Surfaces",
       "5 102 pz 7.5", "103 0 -3 imp:n=0"},
      {"c Begin Cells", "101 102 -0.998 ... imp:n=1", "c 9 102 -1.0",
       "  102 102 -1.0 -7", "c Begin Surfaces"},
      {"c Begin Cells", "", "7", "101 102", "c Begin Surfaces"} }

TempPools ==
    { {"c Begin Cells", "101 102 -0.998 1 -2 imp:n=1 $ water",
       "101 102 -0.998 1 -2 imp:n=1 $water", "101 102 -0.998 1 -2 imp:n=1",
       "103 0 -3 imp:n=0"},
      {"c Begin Cells", "c 9 102 -1.0 $ x", "101 101 -6.0 -1 $ fuel", "7", ""},
      {"c Begin Core Water Cells", "201 102 -1.0 -5 imp:n=1", "202 102 -1.0 -5 imp:n=0",
       "c 204 102 -1.0 imp:n=1", "c End Core Water Cells"},
      {"c Begin Core Water Cells", "203 102 -1.0 -5", "c End Core Water Cells",
       "101 102 -0.998 1 -2 imp:n=1", ""},
      {"c Begin Materials", "m102 1001.80c 2 8016.80c 1", "mt102 lwtr.20t",
       "mt101 h/zr.20t zr/h.30t", "c End Materials"},
      {"c Begin Materials", "m101 92235.80c 1 92238.80c 2 $ fuel", "     40000.66c 1",
       "m5 6000.80c 1", "     8016.80c 1"},
      {"c Begin Materials", "m101 94239.80c 1", "     92238.80c 2",
       "mt101 h/zr.20t zr/h.30t $ sab", "c 1001.80c"},
      {"c Begin Cells", "c Begin Surfaces", "c End Core Water Cells", "c End Materials",
       "101 102 -0.998 1 -2 imp:n=1"},
      {"c Begin Materials", "m101 92235.80c 1 92235.81c 1",
       "m101 1001.80c 2 40000.66c 1 $ 1001.80c h", "mt101 zr/h.30t h/zr.20t",
       "m102 8016.80c 1 1001.80c 2"} }

\* A deck with two Materials blocks
TempLongDecks ==
    { <<"c Begin Materials", "m101 92235.80c 1", "c End Materials",
        "c Begin Materials", "     40000.66c 1">> }

DecksOf(pools) ==
    UNION {SeqsUpTo(pool, MaxLines) : pool \in pools}

RodArgs ==
    {[safe |-> 50, shim |-> 0, reg |-> 0], [safe |-> 0, shim |-> 10, reg |-> 100],
     [safe |-> 100, shim |-> 37, reg |-> 1]}

DensArgs ==
    { << [key |-> [kind |-> "str", text |-> "102"], val |-> 95000] >>,
      << [key |-> [kind |-> "int", text |-> "102"], val |-> 95000] >> }

TempArgs ==
    { << [key |-> 102, val |-> 6000], [key |-> 101, val |-> 6500] >>,
      << [key |-> 101, val |-> 7500] >> }

ArgsOf(e) ==
    CASE e = "rod" -> RodArgs [] e = "dens" -> DensArgs [] e = "temp" -> TempArgs

(***************************************************************************)
(* State                                                                   *)
(***************************************************************************)

VARIABLES
    editor,                    \* the function under call: "rod", "dens", "temp"
    deck,                      \* the lines of the base deck file before any call
    base_input_name,           \* the path of the base deck file
    fs,                        \* the output directory: file name -> lines written
    pc,                        \* "idle": no call active; "loop": in the for loop
    arg,                       \* the dict argument of the active call
    new_input_name,
    pos,                       \* index of the next line the for loop reads
    inside_block_safe, inside_block_shim, inside_block_reg,
    inside_block_cells, inside_block_water_cells, inside_block_surfs,
    inside_block_mats, mat_id,
    base_open,                 \* base-deck file objects opened and not closed
    out_open,                  \* names of output file objects opened and not closed
    calls,                     \* history: the finished calls, [arg, name, result]
    opens,                     \* history: the names opened with 'w+', in order
    fs_before,                 \* history: fs when the last call started
    last,                      \* history: the last line read and what it wrote
    res_lst, res_K,            \* the arguments of a call of find_closest_value
    res_key,                   \* <<>>, or <<k>> when that call has returned k
    dir_exists,                \* whether the inputs folder exists
    tasks,                     \* the concurrent editor calls, one record each
    nm_call, nm_name, nm_seen, \* a derivation of an output name, and those made
    co_row, co_out             \* a row of a coefficient table, and its results

rod_flags == <<inside_block_safe, inside_block_shim, inside_block_reg>>

temp_flags == <<inside_block_cells, inside_block_water_cells, inside_block_surfs,
                inside_block_mats, mat_id>>

res_vars == <<res_lst, res_K, res_key>>

par_vars == <<dir_exists, tasks>>

nm_vars == <<nm_call, nm_name, nm_seen>>

co_vars == <<co_row, co_out>>

\* The variables the editor calls of Spec leave alone
aux_vars == <<res_vars, par_vars, nm_vars, co_vars>>

\* The variables of the sequential editor calls
seq_vars == <<editor, deck, base_input_name, fs, pc, arg, new_input_name, pos, rod_flags,
              temp_flags, base_open, out_open, calls, opens, fs_before, last>>

vars == <<seq_vars, aux_vars>>

\* The paths the base deck is read from: a file of its own, or the very
\* path one of the calls derives for its output
BaseNames(e) ==
    {filepath \o "/rc.i",
     CASE e = "rod"  -> rod_input_name(filepath, inputs_folder_name, module_name,
                                        [safe |-> 0, shim |-> 10, reg |-> 100])
       [] e = "dens" -> dens_input_name(filepath, inputs_folder_name, module_name,
                                         << [key |-> [kind |-> "str", text |-> "102"],
                                             val |-> 95000] >>)
       [] e = "temp" -> temp_input_name(filepath, inputs_folder_name, module_name,
                                         << [key |-> 101, val |-> 7500] >>)}

\* The lines the open base deck yields: the content of its file
BaseLines == fs[base_input_name]

NoLine == [n |-> 0, line |-> "", state |-> "None", wrote |-> <<>>, err |-> "none"]

\* The scanner state the flags encode
RodState ==
    IF inside_block_safe THEN "SafeRod"
    ELSE IF inside_block_shim THEN "ShimRod"
    ELSE IF inside_block_reg THEN "RegRod"
    ELSE "None"

TempState ==
    IF inside_block_cells THEN "Cells"
    ELSE IF inside_block_water_cells THEN "CoreWaterCells"
    ELSE IF inside_block_surfs THEN "Surfaces"
    ELSE IF inside_block_mats THEN "Materials"
    ELSE "None"

ScannerState ==
    IF editor = "rod" THEN RodState ELSE TempState

Init ==
    /\ editor \in {"rod", "dens", "temp"}
    /\ deck \in DecksOf(CASE editor = "rod" -> RodPools
                          [] editor = "dens" -> DensPools
                          [] editor = "temp" -> TempPools)
                 \cup (IF editor = "temp" THEN TempLongDecks ELSE {})
    /\ base_input_name \in BaseNames(editor)
    /\ fs = [n \in {base_input_name} |-> deck]
    /\ pc = "idle"
    /\ arg = CHOOSE a \in ArgsOf(editor) : TRUE
    /\ new_input_name = ""
    /\ pos = 1
    /\ inside_block_safe = FALSE /\ inside_block_shim = FALSE /\ inside_block_reg = FALSE
    /\ inside_block_cells = FALSE /\ inside_block_water_cells = FALSE
    /\ inside_block_surfs = FALSE /\ inside_block_mats = FALSE /\ mat_id = 0
    /\ base_open = 0
    /\ out_open = {}
    /\ calls = <<>>
    /\ opens = <<>>
    /\ fs_before = fs
    /\ last = NoLine
    /\ res_lst = <<>> /\ res_K = 0 /\ res_key = <<>>
    /\ dir_exists = TRUE /\ tasks = <<>>
    /\ nm_call = <<>> /\ nm_name = <<>> /\ nm_seen = {}
    /\ co_row = <<>> /\ co_out = <<>>

(***************************************************************************)
(* Operations                                                              *)
(***************************************************************************)

\* The output name the call derives from its argument
InputName(e, a) ==
    CASE e = "rod"  -> rod_input_name(filepath, inputs_folder_name, module_name, a)
      [] e = "dens" -> dens_input_name(filepath, inputs_folder_name, module_name, a)
      [] e = "temp" -> temp_input_name(filepath, inputs_folder_name, module_name, a)

isfile_relative(name) ==
    (inputs_folder_name \o "/" \o name) \in DOMAIN fs

isfile_created(name) ==
    \E i \in 1..Len(opens) : opens[i] = name

\* os.path.isfile(new_input_name)
isfile(name) ==
    name \in DOMAIN fs

\* open(name, 'w+'): creates the file, or truncates the one there
OpenW(name) ==
    [n \in DOMAIN fs \cup {name} |-> IF n = name THEN <<>> ELSE fs[n]]

\* new_input_deck.write(..) of each line of wrote
Written(wrote) ==
    [fs EXCEPT ![new_input_name] = @ \o wrote]

Returned(a, name, r) ==
    Append(calls, [arg |-> a, name |-> name, result |-> r])

\* A call that finds its output: the base deck is opened, the name derived,
\* and the call returns False without base_input_deck.close().  The file
\* object is closed when the interpreter collects it: at the return (it
\* counts references) or at some later time.
CallSkip(a) ==
    /\ pc = "idle"
    /\ Len(calls) < MaxCalls
    /\ isfile(InputName(editor, a))
    /\ arg' = a
    /\ new_input_name' = InputName(editor, a)
    /\ \E collected \in BOOLEAN :
           base_open' = IF collected THEN base_open ELSE base_open + 1
    /\ calls' = Returned(a, InputName(editor, a), "False")
    /\ fs_before' = fs
    /\ last' = NoLine
    /\ UNCHANGED <<editor, deck, base_input_name, fs, pc, pos, rod_flags, temp_flags,
                   out_open, opens, aux_vars>>

\* A call that does not find its output: it opens it and enters the loop
CallOpen(a) ==
    /\ pc = "idle"
    /\ Len(calls) < MaxCalls
    /\ ~isfile(InputName(editor, a))
    /\ arg' = a
    /\ new_input_name' = InputName(editor, a)
    /\ base_open' = base_open + 1
    /\ fs' = OpenW(InputName(editor, a))
    /\ out_open' = out_open \cup {InputName(editor, a)}
    /\ opens' = Append(opens, InputName(editor, a))
    /\ fs_before' = fs
    /\ pc' = "loop"
    /\ pos' = 1
    /\ inside_block_safe' = FALSE /\ inside_block_shim' = FALSE /\ inside_block_reg' = FALSE
    /\ inside_block_cells' = FALSE /\ inside_block_water_cells' = FALSE
    /\ inside_block_surfs' = FALSE /\ inside_block_mats' = FALSE /\ mat_id' = 0
    /\ last' = NoLine
    /\ UNCHANGED <<editor, deck, base_input_name, calls, aux_vars>>

\* What every loop body does with the outcome of its line: the writes, then
\* the next line, or the exception leaving the call
LineDone(wrote, err) ==
    /\ fs' = Written(wrote)
    /\ last' = [n |-> pos, line |-> BaseLines[pos], state |-> ScannerState,
                wrote |-> wrote, err |-> err]
    /\ IF err = "none"
       THEN /\ pos' = pos + 1
            /\ UNCHANGED <<pc, calls>>
       ELSE /\ pc' = "idle"
            /\ calls' = Returned(arg, new_input_name, err)
            /\ UNCHANGED pos
    /\ UNCHANGED <<editor, deck, base_input_name, arg, new_input_name, base_open, out_open,
                   opens, fs_before, aux_vars>>

\* One iteration of the for loop of change_rod_height
RodStep ==
    /\ pc = "loop" /\ editor = "rod" /\ pos <= Len(BaseLines)
    /\ LET r == RodLine(BaseLines[pos],
                        RodFlags(inside_block_safe, inside_block_shim, inside_block_reg),
                        arg)
       IN  /\ inside_block_safe' = r.flags.safe
           /\ inside_block_shim' = r.flags.shim
           /\ inside_block_reg' = r.flags.reg
           /\ LineDone(r.wrote, r.err)
    /\ UNCHANGED temp_flags

\* One iteration of the for loop of change_cell_densities
DensStep ==
    /\ pc = "loop" /\ editor = "dens" /\ pos <= Len(BaseLines)
    /\ LET r == DensLine(BaseLines[pos], inside_block_cells, arg)
       IN  /\ inside_block_cells' = r.inside
           /\ LineDone(r.wrote, r.err)
    /\ UNCHANGED <<rod_flags, inside_block_water_cells, inside_block_surfs,
                   inside_block_mats, mat_id>>

\* One iteration of the for loop of change_cell_and_mat_temps
TempStep ==
    /\ pc = "loop" /\ editor = "temp" /\ pos <= Len(BaseLines)
    /\ LET r == TempLine(BaseLines[pos],
                         TempFlags(inside_block_cells, inside_block_water_cells,
                                   inside_block_surfs, inside_block_mats),
                         mat_id, arg)
       IN  /\ inside_block_cells' = r.flags.cells
           /\ inside_block_water_cells' = r.flags.water_cells
           /\ inside_block_surfs' = r.flags.surfs
           /\ inside_block_mats' = r.flags.mats
           /\ mat_id' = r.mat_id
           /\ LineDone(r.wrote, r.err)
    /\ UNCHANGED rod_flags

\* The end of the loop: both files are closed and the call returns True
Finish ==
    /\ pc = "loop" /\ pos > Len(BaseLines)
    /\ base_open' = base_open - 1
    /\ out_open' = out_open \ {new_input_name}
    /\ pc' = "idle"
    /\ calls' = Returned(arg, new_input_name, "True")
    /\ UNCHANGED <<editor, deck, base_input_name, fs, arg, new_input_name, pos, rod_flags,
                   temp_flags, opens, fs_before, last, aux_vars>>

Next ==
    \/ \E a \in ArgsOf(editor) : CallSkip(a)
    \/ \E a \in ArgsOf(editor) : CallOpen(a)
    \/ RodStep
    \/ DensStep
    \/ TempStep
    \/ Finish

Spec == Init /\ [][Next]_vars

(***************************************************************************)
(* find_closest_value on its own: one list of keys, query after query.     *)
(***************************************************************************)

MaxQuery == 130

\* The key lists of the declared tables, and the list 294, 600, 900
ResolverLists ==
    {keys(U235_TEMP_DICT), keys(U238_TEMP_DICT), keys(PU239_TEMP_DICT), keys(ZR_TEMP_DICT),
     keys(H1_TEMP_DICT), keys(HZR_TEMP_DICT), keys(ZRH_TEMP_DICT), keys(WATER_TEMP_DICT),
     <<2940, 6000, 9000>>}

\* The queries put to a list: every 25 K from 0 K on, the keys of the list,
\* and the points half way between two of its keys
Queries(lst) ==
    {250 * q : q \in 0..MaxQuery}
        \cup {lst[i] : i \in 1..Len(lst)}
        \cup {(lst[i] + lst[j]) \div 2 : i, j \in 1..Len(lst)}

ResolverInit ==
    /\ editor = "temp" /\ deck = <<>> /\ base_input_name = ""
    /\ fs = [n \in {} |-> <<>>] /\ pc = "idle"
    /\ arg = <<>> /\ new_input_name = "" /\ pos = 1
    /\ inside_block_safe = FALSE /\ inside_block_shim = FALSE /\ inside_block_reg = FALSE
    /\ inside_block_cells = FALSE /\ inside_block_water_cells = FALSE
    /\ inside_block_surfs = FALSE /\ inside_block_mats = FALSE /\ mat_id = 0
    /\ base_open = 0 /\ out_open = {} /\ calls = <<>> /\ opens = <<>>
    /\ fs_before = [n \in {} |-> <<>>] /\ last = NoLine
    /\ res_lst \in ResolverLists
    /\ res_K \in Queries(res_lst)
    /\ res_key = <<>>
    /\ dir_exists = TRUE /\ tasks = <<>>
    /\ nm_call = <<>> /\ nm_name = <<>> /\ nm_seen = {}
    /\ co_row = <<>> /\ co_out = <<>>

\* The call find_closest_value(res_lst, res_K) returns
Resolve ==
    /\ res_key = <<>>
    /\ res_key' = <<find_closest_value(res_lst, res_K)>>
    /\ UNCHANGED <<seq_vars, par_vars, nm_vars, co_vars, res_lst, res_K>>

\* The next query to the same list
Query ==
    /\ res_key # <<>>
    /\ res_K' \in Queries(res_lst)
    /\ res_key' = <<>>
    /\ UNCHANGED <<seq_vars, par_vars, nm_vars, co_vars, res_lst>>

ResolverNext ==
    \/ Resolve
    \/ Query

SpecResolver == ResolverInit /\ [][ResolverNext]_vars

(***************************************************************************)
(* Rod-height calls run side by side on one base deck and one inputs       *)
(* folder.  Each call is a task that takes the steps of change_rod_height  *)
(* one at a time: the isdir test, mkdir, the isfile test, the open, one    *)
(* line of the loop after another, the close.  What a task writes stays in *)
(* the buffer of its file object and reaches the file at the close.        *)
(***************************************************************************)

MaxTasks == 2

ParDecks ==
    { <<"c Safe Rod (0% Withdrawn)", "810 pz 5.12064 $ bottom", "c End of Safe Rod">>,
      <<"c Shim Rod (0% Withdrawn)", "820 pz 1.5">> }

NewTask(a) ==
    [pc |-> "start", arg |-> a, name |-> "", pos |-> 1,
     flags |-> RodFlags(FALSE, FALSE, FALSE), buf |-> <<>>, result |-> "none"]

ParInit ==
    /\ editor = "rod" /\ deck \in ParDecks /\ base_input_name = filepath \o "/rc.i"
    /\ fs = [n \in {base_input_name} |-> deck] /\ pc = "idle"
    /\ arg = <<>> /\ new_input_name = "" /\ pos = 1
    /\ inside_block_safe = FALSE /\ inside_block_shim = FALSE /\ inside_block_reg = FALSE
    /\ inside_block_cells = FALSE /\ inside_block_water_cells = FALSE
    /\ inside_block_surfs = FALSE /\ inside_block_mats = FALSE /\ mat_id = 0
    /\ base_open = 0 /\ out_open = {} /\ calls = <<>> /\ opens = <<>>
    /\ fs_before = fs /\ last = NoLine
    /\ res_lst = <<>> /\ res_K = 0 /\ res_key = <<>>
    /\ dir_exists \in BOOLEAN
    /\ tasks \in [1..MaxTasks -> {NewTask(a) : a \in RodArgs}]
    /\ nm_call = <<>> /\ nm_name = <<>> /\ nm_seen = {}
    /\ co_row = <<>> /\ co_out = <<>>

\* The variables a task may change are tasks, fs and dir_exists
ParFrame ==
    UNCHANGED <<editor, deck, base_input_name, pc, arg, new_input_name, pos, rod_flags,
                temp_flags, base_open, out_open, calls, opens, fs_before, last,
                res_vars, nm_vars, co_vars>>

Ended(t, r) ==
    [t EXCEPT !.pc = "done", !.result = r]

\* new_input_name is derived and os.path.isdir(inputs_folder_name) tested
TaskIsDir(i) ==
    /\ tasks[i].pc = "start"
    /\ tasks' = [tasks EXCEPT ![i] =
                     [@ EXCEPT !.name = rod_input_name(filepath, inputs_folder_name,
                                                       module_name, tasks[i].arg),
                               !.pc = IF dir_exists THEN "isfile" ELSE "mkdir"]]
    /\ UNCHANGED <<fs, dir_exists>>
    /\ ParFrame

\* os.mkdir(inputs_folder_name), which raises when the folder is there
TaskMkDir(i) ==
    /\ tasks[i].pc = "mkdir"
    /\ IF dir_exists
       THEN /\ tasks' = [tasks EXCEPT ![i] = Ended(@, "FileExistsError")]
            /\ UNCHANGED dir_exists
       ELSE /\ tasks' = [tasks EXCEPT ![i].pc = "isfile"]
            /\ dir_exists' = TRUE
    /\ UNCHANGED fs
    /\ ParFrame

\* os.path.isfile(new_input_name) and the return False
TaskIsFile(i) ==
    /\ tasks[i].pc = "isfile"
    /\ tasks' = [tasks EXCEPT ![i] =
                     IF isfile(@.name) THEN Ended(@, "False") ELSE [@ EXCEPT !.pc = "open"]]
    /\ UNCHANGED <<fs, dir_exists>>
    /\ ParFrame

\* open(new_input_name, 'w+')
TaskOpen(i) ==
    /\ tasks[i].pc = "open"
    /\ fs' = OpenW(tasks[i].name)
    /\ tasks' = [tasks EXCEPT ![i].pc = "loop"]
    /\ UNCHANGED dir_exists
    /\ ParFrame

\* One iteration of the for loop
TaskLine(i) ==
    /\ tasks[i].pc = "loop" /\ tasks[i].pos <= Len(BaseLines)
    /\ LET t == tasks[i]
           r == RodLine(BaseLines[t.pos], t.flags, t.arg)
       IN  tasks' = [tasks EXCEPT ![i] =
                         IF r.err = "none"
                         THEN [t EXCEPT !.flags = r.flags, !.buf = @ \o r.wrote,
                                        !.pos = @ + 1]
                         ELSE Ended([t EXCEPT !.buf = @ \o r.wrote], r.err)]
    /\ UNCHANGED <<fs, dir_exists>>
    /\ ParFrame

\* new_input_deck.close(), which writes the buffer out, and the return True
TaskClose(i) ==
    /\ tasks[i].pc = "loop" /\ tasks[i].pos > Len(BaseLines)
    /\ fs' = [fs EXCEPT ![tasks[i].name] = tasks[i].buf]
    /\ tasks' = [tasks EXCEPT ![i] = Ended(@, "True")]
    /\ UNCHANGED dir_exists
    /\ ParFrame

ParNext ==
    \E i \in 1..MaxTasks :
        \/ TaskIsDir(i)
        \/ TaskMkDir(i)
        \/ TaskIsFile(i)
        \/ TaskOpen(i)
        \/ TaskLine(i)
        \/ TaskClose(i)

SpecParallel == ParInit /\ [][ParNext]_vars

(***************************************************************************)
(* The output names the editors derive, for calls with several filepath    *)
(* values and specs.  nm_seen collects each call with the name it derived. *)
(***************************************************************************)

MaxDerived == 2

NameDirs == {"/w", "/w/v1.2"}

NameDensArgs ==
    DensArgs \cup
    { << [key |-> [kind |-> "str", text |-> "102"], val |-> 125000] >>,
      << [key |-> [kind |-> "str", text |-> "102"], val |-> 1250000] >>,
      << [key |-> [kind |-> "str", text |-> "102"], val |-> 95000],
         [key |-> [kind |-> "str", text |-> "103"], val |-> 50000] >> }

NameTempArgs ==
    TempArgs \cup
    { << [key |-> 102, val |-> 6000], [key |-> 101, val |-> 9000] >>,
      << [key |-> 102, val |-> 6005] >> }

NamesInit ==
    /\ editor \in {"rod", "dens", "temp"} /\ deck = <<>> /\ base_input_name = ""
    /\ fs = [n \in {} |-> <<>>] /\ pc = "idle"
    /\ arg = <<>> /\ new_input_name = "" /\ pos = 1
    /\ inside_block_safe = FALSE /\ inside_block_shim = FALSE /\ inside_block_reg = FALSE
    /\ inside_block_cells = FALSE /\ inside_block_water_cells = FALSE
    /\ inside_block_surfs = FALSE /\ inside_block_mats = FALSE /\ mat_id = 0
    /\ base_open = 0 /\ out_open = {} /\ calls = <<>> /\ opens = <<>>
    /\ fs_before = [n \in {} |-> <<>>] /\ last = NoLine
    /\ res_lst = <<>> /\ res_K = 0 /\ res_key = <<>>
    /\ dir_exists = TRUE /\ tasks = <<>>
    /\ nm_call = <<>> /\ nm_name = <<>> /\ nm_seen = {}
    /\ co_row = <<>> /\ co_out = <<>>

\* A call with filepath fp and spec a has derived name
Derived(fp, a, name) ==
    /\ Cardinality(nm_seen) < MaxDerived
    /\ nm_call' = <<[filepath |-> fp, arg |-> a]>>
    /\ nm_name' = <<name>>
    /\ nm_seen' = nm_seen \cup {[filepath |-> fp, arg |-> a, name |-> name]}
    /\ UNCHANGED <<seq_vars, res_vars, par_vars, co_vars>>

\* new_input_name of change_rod_height
DeriveRod ==
    /\ editor = "rod"
    /\ \E fp \in NameDirs, a \in RodArgs :
           Derived(fp, a, rod_input_name(fp, inputs_folder_name, module_name, a))

\* new_input_name of change_cell_densities
DeriveDens ==
    /\ editor = "dens"
    /\ \E fp \in NameDirs, a \in NameDensArgs :
           Derived(fp, a, dens_input_name(fp, inputs_folder_name, module_name, a))

\* new_input_name of change_cell_and_mat_temps
DeriveTemp ==
    /\ editor = "temp"
    /\ \E fp \in NameDirs, a \in NameTempArgs :
           Derived(fp, a, temp_input_name(fp, inputs_folder_name, module_name, a))

NamesNext ==
    \/ DeriveRod
    \/ DeriveDens
    \/ DeriveTemp

SpecNames == NamesInit /\ [][NamesNext]_vars

(***************************************************************************)
(* The relative-change computations.  k values are in thousandths, x       *)
(* values in hundredths.  A result is held as whether its value is zero    *)
(* and the divisors of the divisions performed to compute it; a row has    *)
(* the difference to the self-reference value (diff) and its results.      *)
(***************************************************************************)

Keffs == {990, 1000, 1003, 1010, 1025}

\* x values of a table; their differences are never halfway between tenths
XValues == {90, 96, 98, 100, 104, 110}

DRhos == {0 - 150, 0, 150}

CoefModules == {"coef_void", "coef_pntc", "coef_mod"}

Val(zero, divisors) == [zero |-> zero, divisors |-> divisors]

\* n / d: zero when n is and the division is defined
Quot(n, d) == Val(n = 0 /\ d # 0, {d})

\* round(d, 1) of a difference in hundredths, in hundredths
round1(d) ==
    LET mag == IF d < 0 THEN 0 - d ELSE d IN
    (IF d < 0 THEN 0 - 1 ELSE 1) * ((mag + 5) \div 10) * 10

\* One row of convert_keff_to_rho: k1 of the height, k2 of the last height
convert_keff_to_rho(k1, k2) ==
    LET k2_minus_k1 == k2 - k1
        k2_times_k1 == k2 * k1
        rho         == Quot(k2_minus_k1 * 100, k2_times_k1)
    IN  [diff |-> k2_minus_k1,
         cols |-> << rho,
                     IF k2_minus_k1 # 0
                     THEN Val(rho.zero, {k2_minus_k1, k2_times_k1})
                     ELSE Val(TRUE, {}) >>]

\* One row of convert_keff_to_rho_coef: rho, dollars, rho unc, dollars unc
convert_keff_to_rho_coef(k1, k2) ==
    LET k2_minus_k1 == k2 - k1
        k2_times_k1 == k2 * k1
        rho         == Quot((0 - k2_minus_k1) * 100, k2_times_k1)
    IN  [diff |-> k2_minus_k1,
         cols |-> << rho, rho >>
                  \o (IF k2_minus_k1 # 0
                      THEN << Val(rho.zero, {k2_minus_k1, k2_times_k1}),
                              Val(rho.zero, {k2_minus_k1, k2_times_k1}) >>
                      ELSE << Val(TRUE, {}), Val(TRUE, {}) >>)]

\* One row of calc_params_coef: coef rho and coef dollars; dollars is a
\* multiple of rho
calc_params_coef(module, x_value, original_x_value, D_rho) ==
    IF x_value = original_x_value
    THEN [diff |-> 0, cols |-> << Val(TRUE, {}), Val(TRUE, {}) >>]
    ELSE LET D_x == IF module = "coef_void"
                    THEN (0 - 100) * round1(x_value - original_x_value)
                    ELSE round1(x_value - original_x_value)
         IN  [diff |-> D_x, cols |-> << Quot(D_rho, D_x), Quot(D_rho, D_x) >>]

CoefInit ==
    /\ editor = "rod" /\ deck = <<>> /\ base_input_name = ""
    /\ fs = [n \in {} |-> <<>>] /\ pc = "idle"
    /\ arg = <<>> /\ new_input_name = "" /\ pos = 1
    /\ inside_block_safe = FALSE /\ inside_block_shim = FALSE /\ inside_block_reg = FALSE
    /\ inside_block_cells = FALSE /\ inside_block_water_cells = FALSE
    /\ inside_block_surfs = FALSE /\ inside_block_mats = FALSE /\ mat_id = 0
    /\ base_open = 0 /\ out_open = {} /\ calls = <<>> /\ opens = <<>>
    /\ fs_before = [n \in {} |-> <<>>] /\ last = NoLine
    /\ res_lst = <<>> /\ res_K = 0 /\ res_key = <<>>
    /\ dir_exists = TRUE /\ tasks = <<>>
    /\ nm_call = <<>> /\ nm_name = <<>> /\ nm_seen = {}
    /\ co_row = <<>> /\ co_out = <<>>

CoefFrame == UNCHANGED <<seq_vars, res_vars, par_vars, nm_vars>>

RowOfRho ==
    /\ \E k1 \in Keffs, k2 \in Keffs :
           /\ co_row' = <<"convert_keff_to_rho", k1, k2>>
           /\ co_out' = <<convert_keff_to_rho(k1, k2)>>
    /\ CoefFrame

RowOfRhoCoef ==
    /\ \E k1 \in Keffs, k2 \in Keffs :
           /\ co_row' = <<"convert_keff_to_rho_coef", k1, k2>>
           /\ co_out' = <<convert_keff_to_rho_coef(k1, k2)>>
    /\ CoefFrame

\* The row of the reference x has rho 0
RowOfParams ==
    /\ \E module \in CoefModules, x \in XValues, x0 \in XValues, D_rho \in DRhos :
           /\ x = x0 => D_rho = 0
           /\ co_row' = <<module, x, x0, D_rho>>
           /\ co_out' = <<calc_params_coef(module, x, x0, D_rho)>>
    /\ CoefFrame

CoefNext ==
    \/ RowOfRho
    \/ RowOfRhoCoef
    \/ RowOfParams

SpecCoef == CoefInit /\ [][CoefNext]_vars

(***************************************************************************)
(* Properties                                                              *)
(***************************************************************************)

LastCall == calls[Len(calls)]

OpensOf(name) == Cardinality({i \in 1..Len(opens) : opens[i] = name})

\* A line has been read by the active (or the last) call
LineRead == last.n > 0

\* The line read was written back as it is, once
PassedThrough == last.wrote = <<last.line>>

\* A comment line: it begins with the literal c
IsComment(line) == StartsWith(line, "c")

ReadTokens == split(last.line)

\* C1: a call that repeats the argument of the call before it returns False
\* (skipped), leaves every output file as it was when the call started, and
\* the output of that argument (a path other than the base deck's own) has
\* been opened for writing exactly once.
C1_SecondCallSkipped ==
    (/\ pc = "idle" /\ Len(calls) >= 2 /\ LastCall.arg = calls[Len(calls) - 1].arg
     /\ LastCall.name # base_input_name)
        => /\ LastCall.result = "False"
           /\ fs = fs_before
           /\ OpensOf(LastCall.name) = 1

C1_Witness ==
    /\ pc = "idle" /\ Len(calls) = 2
    /\ calls[1].arg = calls[2].arg
    /\ calls[1].result = "True" /\ calls[2].result = "False"
    /\ Len(fs[calls[2].name]) > Len(deck)

\* C2: in the density editor a line read (without an exception) after a
\* "Begin Surfaces" marker, with no "Begin Cells" marker in between, is
\* written back unchanged.
C2_InactiveAfterSurfaces ==
    (/\ editor = "dens" /\ LineRead /\ last.err = "none"
     /\ \E i \in 1..(last.n - 1) :
            /\ Contains("Begin Surfaces", deck[i])
            /\ \A j \in i..(last.n - 1) : ~Contains("Begin Cells", deck[j]))
        => PassedThrough

C3Arg == [safe |-> 50, shim |-> 0, reg |-> 0]

C3Deck ==
    <<"c Safe Rod (0% Withdrawn)", "810 1 pz 5.12064 ... $ bottom", "c End of Safe Rod">>

C3DeckAmended ==
    <<"c Safe Rod (0% Withdrawn)", "810 pz 5.12064 $ bottom", "c End of Safe Rod">>

\* Some line of the file holds tok as one of its fields
HasField(name, tok) ==
    \E i \in 1..Len(fs[name]) : InEntries(tok, split(fs[name][i]))

C4_OriginalPrecedes ==
    (LineRead /\ last.err = "none" /\ ~IsComment(last.line) /\ ~PassedThrough)
        => Len(last.wrote) = 2 /\ last.wrote[1] = "c " \o last.line

\* C4 amended: the same, in the density and temperature editors.
C4_OriginalPrecedesDensTemp ==
    (/\ editor \in {"dens", "temp"}
     /\ LineRead /\ last.err = "none" /\ ~IsComment(last.line) /\ ~PassedThrough)
        => Len(last.wrote) = 2 /\ last.wrote[1] = "c " \o last.line

C4_Witness ==
    /\ editor = "dens"
    /\ last.wrote = <<"c 101 102 -0.998 1 -2 imp:n=1", "101 102 -0.95 1 -2 imp:n=1">>

\* C5: a call that opened an output deck ends having read every line of the
\* base deck and closed the output; no output is opened for writing twice.
C5_WrittenCompletelyThenClosed ==
    /\ (pc = "idle" /\ Len(calls) >= 1 /\ LastCall.result # "False")
           => /\ LastCall.result = "True"
              /\ pos > Len(deck)
              /\ LastCall.name \notin out_open
    /\ \A name \in DOMAIN fs : OpensOf(name) <= 1

AllTables ==
    <<U235_TEMP_DICT, U238_TEMP_DICT, PU239_TEMP_DICT, ZR_TEMP_DICT, H1_TEMP_DICT,
      HZR_TEMP_DICT, ZRH_TEMP_DICT, WATER_TEMP_DICT>>

\* The tables that have a token among the fields of the line
TablesOn(line) ==
    {t \in 1..Len(AllTables) : \E tok \in values(AllTables[t]) : InEntries(tok, split(line))}

\* C6: a non-comment Materials line of a target material that carries tokens
\* of one table (any of the eight declared) is rewritten with that table's
\* entry for the key nearest to the target temperature in place of the token.
C6_EveryTableApplied ==
    (/\ editor = "temp" /\ LineRead /\ last.state = "Materials"
     /\ ~IsComment(last.line) /\ ReadTokens # <<>>
     /\ mat_id \in DictKeys(arg)
     /\ Cardinality(TablesOn(last.line)) = 1)
        => \A t \in TablesOn(last.line) :
               /\ Len(last.wrote) = 2
               /\ InEntries(item(AllTables[t],
                                 find_closest_value(keys(AllTables[t]), DictGet(arg, mat_id))),
                            split(last.wrote[2]))

EndMarkerOf(state) ==
    CASE state = "SafeRod" -> "End of Safe Rod"
      [] state = "ShimRod" -> "End of Shim Rod"
      [] state = "RegRod"  -> "End of Reg Rod"

\* C7: in the rod editor, a line read while a rod block is active that
\* contains the end marker of that block leaves the scanner in state None.
C7_EndMarkerLeavesBlock ==
    (/\ editor = "rod" /\ LineRead /\ last.state # "None" /\ last.err = "none"
     /\ Contains(EndMarkerOf(last.state), last.line))
        => RodState = "None"

\* The text of a line before its first "$"
BeforeDollar(line) == split_on(line, "$")[1]

\* C8: for a non-comment Cells line whose second token is a target material
\* id, the temperature editor writes the original commented out and then a
\* rewrite with the tmp attribute before the "$" when the line has one, and
\* as the last field when it has none.
C8_TmpBeforeDollar ==
    (/\ editor = "temp" /\ LineRead /\ last.state = "Cells"
     /\ ~IsComment(last.line) /\ Len(ReadTokens) >= 2
     /\ InTempKeys(ReadTokens[2], arg)
     /\ TempState = "Cells")
        => LET attr == tmp_attr(DictGet(arg, NatVal(ReadTokens[2]))) IN
           /\ Len(last.wrote) = 2
           /\ last.wrote[1] = "c " \o last.line
           /\ IF Contains("$", last.line)
              THEN InEntries(attr, split(BeforeDollar(last.wrote[2])))
              ELSE split(last.wrote[2]) = Append(ReadTokens, attr)

\* C9: in the CoreWaterCells block the temperature editor (given a
\* temperature for the water material) rewrites exactly the non-comment
\* lines that contain imp:n=1, with the tmp attribute right after that
\* marker, and writes every other line back once, unchanged.
C9_WaterCellsRewrite ==
    (/\ editor = "temp" /\ LineRead /\ last.state = "CoreWaterCells"
     /\ TempState = "CoreWaterCells"
     /\ WATER_MAT_CARD \in DictKeys(arg))
        => IF ~IsComment(last.line) /\ Contains("imp:n=1", last.line)
           THEN last.wrote =
                    <<"c " \o last.line,
                      replace(last.line, "imp:n=1",
                              "imp:n=1 " \o tmp_attr(DictGet(arg, WATER_MAT_CARD)))>>
           ELSE PassedThrough

\* The material ids that are keys of the DensitySpec, as the text of a token
DensityTargets == {k.text : k \in DictKeys(arg)}

\* C10: for a non-comment line of the Cells block with a density field (three
\* tokens or more), the density editor writes, when the second token is a
\* material id of the DensitySpec, the original commented out and then the
\* same tokens with the third replaced by the negated target density; it
\* writes any other line back unchanged.
C10_DensityRewrite ==
    (/\ editor = "dens" /\ LineRead /\ last.state = "Cells"
     /\ ~IsComment(last.line) /\ Len(ReadTokens) >= 3)
        => IF ReadTokens[2] \in DensityTargets
           THEN /\ Len(last.wrote) = 2
                /\ last.wrote[1] = "c " \o last.line
                /\ split(last.wrote[2]) =
                       [ReadTokens EXCEPT ![3] =
                           str_float(0 - arg[CHOOSE i \in 1..Len(arg) :
                                                 arg[i].key.text = ReadTokens[2]].val)]
           ELSE PassedThrough

\* The fields of a line that come before its first "$"
FieldsBeforeDollar(line) == split(BeforeDollar(line))

\* A Materials line of a target material has been rewritten
MaterialRewritten ==
    /\ editor = "temp" /\ LineRead /\ last.state = "Materials" /\ last.err = "none"
    /\ ~IsComment(last.line) /\ mat_id \in DictKeys(arg)
    /\ Len(last.wrote) = 2

\* The index in AllTables of the table that has tok among its values
TableIndexOf(tok) ==
    CHOOSE t \in 1..Len(AllTables) : tok \in values(AllTables[t])

\* The first field before the "$" that is a value of one of tables
FirstTokenOf(line, tables) ==
    LET toks == FieldsBeforeDollar(line)
        hits == {i \in 1..Len(toks) : \E t \in 1..Len(tables) : toks[i] \in values(tables[t])}
    IN  toks[CHOOSE h \in hits : \A g \in hits : h <= g]

\* The table entry the resolver selects for the target of the material
Resolved(d) ==
    item(d, find_closest_value(keys(d), DictGet(arg, mat_id)))

\* C11 as stated: a rewritten Materials line with tokens of more than one
\* table has the tokens of the family of its first table token replaced by
\* that family's resolved entry and every other token as it was.
C11_SingleFamily ==
    (MaterialRewritten /\ Cardinality(TablesOn(BeforeDollar(last.line))) >= 2)
        => LET toks == FieldsBeforeDollar(last.line)
               d    == AllTables[TableIndexOf(FirstTokenOf(last.line, AllTables))]
               out  == split(last.wrote[2])
           IN  /\ Len(out) >= Len(toks)
               /\ \A i \in 1..Len(toks) :
                      out[i] = IF toks[i] \in values(d) THEN Resolved(d) ELSE toks[i]

\* C11 amended: when a field before the "$" is a value of a nuclide table,
\* the rewrite replaces the occurrences of the first such field by its
\* table's resolved entry and leaves every other field as it was; when none
\* is and the line begins with mt, every h/zr and every zr/h field before
\* the "$" is replaced by the resolved entry of its own table.
C11_FirstNuclideToken ==
    MaterialRewritten
        => LET toks == FieldsBeforeDollar(last.line)
               out  == split(last.wrote[2])
           IN  IF \E i \in 1..Len(toks) : InNuclideTable(toks[i])
               THEN LET first == FirstTokenOf(last.line, NuclideTables)
                        d     == NuclideTableOf(first)
                    IN  /\ Len(out) = Len(ReadTokens)
                        /\ \A i \in 1..Len(ReadTokens) :
                               out[i] = IF ReadTokens[i] = first THEN Resolved(d)
                                        ELSE ReadTokens[i]
               ELSE StartsWith(toks[1], "mt")
                        => /\ Len(out) >= Len(toks)
                           /\ \A i \in 1..Len(toks) :
                                  out[i] = IF StartsWith(toks[i], "h/zr")
                                           THEN Resolved(HZR_TEMP_DICT)
                                           ELSE IF StartsWith(toks[i], "zr/h")
                                           THEN Resolved(ZRH_TEMP_DICT)
                                           ELSE toks[i]

C11_Witness ==
    /\ MaterialRewritten
    /\ last.line = "m101 92235.80c 1 92238.80c 2 $ fuel"
    /\ last.wrote[2] = "m101 92235.81c 1 92238.80c 2 $ fuel"

\* The geometry of a record of a rod block: the tests of the loop body, in
\* their order
GeometryOf(line) ==
    IF FirstChar(line) = "c" \/ ~StartsWith(line, "8") THEN "none"
    ELSE IF Contains("pz", line) THEN "pz"
    ELSE IF Contains("k/z", line) THEN "k/z"
    ELSE "none"

\* A geometry record of an active rod block has been read and rewritten
GeometryRewritten ==
    /\ editor = "rod" /\ LineRead /\ last.state # "None" /\ last.err = "none"
    /\ GeometryOf(last.line) # "none"

\* The percentage of the rod whose block was active when the line was read
ActiveHeight ==
    CASE last.state = "SafeRod" -> arg.safe
      [] last.state = "ShimRod" -> arg.shim
      [] last.state = "RegRod"  -> arg.reg

\* The 1-based position of the numeric field of the geometry
NumericField(geometry) == IF geometry = "pz" THEN 3 ELSE 5

C13_Reassembly ==
    GeometryRewritten
        => LET out == split(last.wrote[1])
               n   == IF GeometryOf(last.line) = "pz" THEN 3 ELSE 7
           IN  rstrip(last.wrote[1]) =
                   rstrip(join("   ", Slice(out, 0, n)) \o " "
                              \o join(" ", Slice(out, n, Len(out))))

\* The comment written in place of a line that holds a start marker
HeaderFor(line) ==
    IF Contains("Safe Rod (", line)
    THEN "c Safe Rod (" \o str_int(arg.safe) \o "% withdrawn)"
    ELSE IF Contains("Shim Rod (", line)
    THEN "c Shim Rod (" \o str_int(arg.shim) \o "% withdrawn)"
    ELSE "c Reg Rod (" \o str_int(arg.reg) \o "% withdrawn)"

HasStartMarker(line) ==
    Contains("Safe Rod (", line) \/ Contains("Shim Rod (", line) \/ Contains("Reg Rod (", line)

\* A line of the rod editor has been read without an exception
RodLineRead == editor = "rod" /\ LineRead /\ last.err = "none"

\* C14 as stated: the rod editor writes back unchanged every line read while
\* no rod block is active, and every line of an active block that is not a
\* matching geometry record.
C14_RodPassThrough ==
    RodLineRead
        => /\ last.state = "None" => PassedThrough
           /\ (last.state # "None" /\ GeometryOf(last.line) = "none") => PassedThrough

\* C14 amended: a line read while no rod block is active is written back
\* unchanged unless it holds a start marker, and then the comment naming the
\* rod and its percentage is written in its place; a line of an active block
\* that is not a geometry record (first character 8, holding pz or k/z) is
\* written back unchanged.
C14_RodPassThroughButMarkers ==
    RodLineRead
        => /\ (last.state = "None" /\ ~HasStartMarker(last.line)) => PassedThrough
           /\ (last.state = "None" /\ HasStartMarker(last.line))
                  => last.wrote = <<HeaderFor(last.line)>>
           /\ (last.state # "None" /\ GeometryOf(last.line) = "none") => PassedThrough

C14_Witness ==
    /\ RodLineRead /\ last.state = "ShimRod"
    /\ last.line = " 812 pz 1.5" /\ PassedThrough

\* The number of inside-block flags that are true
FlagsUp(flags) == Cardinality({i \in 1..Len(flags) : flags[i]})

\* C15: at most one inside-block flag of the rod editor is true, and at most
\* one of the temperature editor.
C15_MutuallyExclusive ==
    /\ FlagsUp(<<inside_block_safe, inside_block_shim, inside_block_reg>>) <= 1
    /\ FlagsUp(<<inside_block_cells, inside_block_water_cells, inside_block_surfs,
                 inside_block_mats>>) <= 1

C15_Witness ==
    /\ editor = "temp" /\ LineRead
    /\ last.state = "CoreWaterCells" /\ Contains("End Core Water Cells", last.line)
    /\ TempState = "Cells"

\* The line read is one the rod editor takes as the end marker of its block
EndRecognised ==
    FirstChar(last.line) = "c" /\ Contains(EndMarkerOf(last.state), last.line)

\* C16: a rod block stays active after every line that is not recognised as
\* its end marker (a start marker of another rod included), and a call that
\* reaches the end of the deck inside a block returns True.
C16_UnterminatedBlock ==
    /\ (RodLineRead /\ last.state # "None" /\ ~EndRecognised) => RodState = last.state
    /\ (/\ editor = "rod" /\ pc = "idle" /\ Len(calls) >= 1 /\ LineRead
        /\ last.err = "none" /\ RodState # "None")
           => LastCall.result = "True"

C16_Witness ==
    /\ editor = "rod" /\ pc = "idle" /\ Len(calls) = 1 /\ LastCall.result = "True"
    /\ RodState = "SafeRod" /\ last.n = Len(deck)
    /\ \E i \in 2..Len(deck) : Contains("Shim Rod (", deck[i])

\* find_closest_value has returned the key Resolved_key
HasResolved == res_key # <<>>

Resolved_key == res_key[1]

\* C17: the key returned is at a minimal absolute difference from the query
\* and, of the keys at that difference, the one at the lowest index of the
\* list as declared; from 294, 600, 900 the queries 650 and 750 give 600.
C17_NearestLowestIndex ==
    HasResolved
        => /\ \E i \in 1..Len(res_lst) :
                  /\ res_lst[i] = Resolved_key
                  /\ \A j \in 1..Len(res_lst) :
                         Abs(res_lst[i] - res_K) <= Abs(res_lst[j] - res_K)
                  /\ \A j \in 1..(i - 1) :
                         Abs(res_lst[j] - res_K) > Abs(res_lst[i] - res_K)
           /\ (res_lst = <<2940, 6000, 9000>> /\ res_K \in {6500, 7500})
                  => Resolved_key = 6000

\* 272 K is as far from 250 K (index 6) as from 294 K (index 0)
C17_Witness ==
    /\ HasResolved /\ res_lst = keys(U235_TEMP_DICT)
    /\ res_K = 2720 /\ Resolved_key = 2940

\* C18: for every list of a declared table and every query, below, within
\* or above the keys of the list, the key returned is a key of the list.
C18_AlwaysASupportedKey ==
    HasResolved => \E i \in 1..Len(res_lst) : res_lst[i] = Resolved_key

C18_Witness ==
    /\ HasResolved /\ res_lst = keys(ZR_TEMP_DICT)
    /\ \A i \in 1..Len(res_lst) : res_lst[i] < res_K
    /\ Resolved_key = 5870

\* C19: a query that is a key of the list returns that key.
C19_RoundTrip ==
    (HasResolved /\ \E i \in 1..Len(res_lst) : res_lst[i] = res_K)
        => Resolved_key = res_K

C19_Witness ==
    /\ HasResolved /\ res_lst = keys(H1_TEMP_DICT)
    /\ res_K = 1 /\ Resolved_key = 1

\* C20: when no call is active, every base-deck handle and every
\* output-deck handle the calls opened has been closed; stated for the calls
\* that returned (True, or False at the early return).
C20_HandlesReleased ==
    (pc = "idle" /\ \A i \in 1..Len(calls) : calls[i].result \in {"True", "False"})
        => base_open = 0 /\ out_open = {}

\* C22: the file of the base deck holds, after any sequence of calls, the
\* lines it held before them, also when a call derives the base deck's own
\* path as its output.
C22_BaseDeckUnchanged ==
    fs[base_input_name] = deck

C22_Witness ==
    /\ pc = "idle" /\ Len(calls) = 2
    /\ calls[1].name # base_input_name /\ calls[1].result = "True"
    /\ calls[2].name = base_input_name /\ calls[2].result = "False"
    /\ Len(deck) > 1 /\ fs[base_input_name] = deck

RECURSIVE RunRod(_, _, _, _, _)
\* What change_rod_height writes for the lines from i on, run alone
RunRod(lines, i, f, a, acc) ==
    IF i > Len(lines) THEN acc
    ELSE LET r == RodLine(lines[i], f, a) IN
         RunRod(lines, i + 1, r.flags, a, acc \o r.wrote)

AllTasksDone == \A i \in 1..MaxTasks : tasks[i].pc = "done"

DifferentTargets == \A i, j \in 1..MaxTasks : tasks[i].arg = tasks[j].arg => i = j

\* C21: when the concurrent calls, each for a different output file, have
\* all ended, each has returned True and its output file holds what the call
\* writes when run alone, whether or not the inputs folder existed before.
C21_ParallelIndependent ==
    (AllTasksDone /\ DifferentTargets)
        => \A i \in 1..MaxTasks :
               /\ tasks[i].result = "True"
               /\ fs[tasks[i].name] =
                      RunRod(deck, 1, RodFlags(FALSE, FALSE, FALSE), tasks[i].arg, <<>>)

\* C24: a line read by an editor never ends the call with an out-of-bounds
\* access or a conversion fault; a malformed line of a tracked block ends it
\* with a descriptive error instead.
C24_NoRawFault ==
    LineRead => last.err \notin {"IndexError", "ValueError"}

\* C26: the replacement written for a non-comment Materials line of a target
\* material has the tokens of the original line, with table tokens alone
\* substituted: the text after a "$" is kept, and a line without a table
\* token that is not an mt card is written again as it was.
C26_ReplacementKeepsLine ==
    MaterialRewritten
        => LET o == split(last.line)
               r == split(last.wrote[2])
           IN  /\ Len(r) = Len(o)
               /\ \A i \in 1..Len(o) :
                      \/ r[i] = o[i]
                      \/ \E t \in 1..Len(AllTables) : o[i] \in values(AllTables[t])
               /\ (TablesOn(last.line) = {} /\ ~StartsWith(o[1], "mt"))
                      => last.wrote[2] = last.line

\* C28: no line read by the temperature editor ends the call for want of an
\* entry in the temperature map, whichever material ids the map has.
C28_AnyTemperatureSpec ==
    (editor = "temp" /\ LineRead) => last.err # "KeyError"

TempStartMarkers ==
    {"Begin Cells", "Begin Core Water Cells", "Begin Surfaces", "Begin Materials"}

HasTempStartMarker(line) == \E mk \in TempStartMarkers : Contains(mk, line)

\* The block an end marker of the temperature editor closes, and the state
\* the scanner takes when it does
TempEndMarkers ==
    { [marker |-> "End Core Water Cells", closes |-> "CoreWaterCells", next |-> "Cells"],
      [marker |-> "End Materials", closes |-> "Materials", next |-> "None"] }

\* C29: in the temperature editor a line with one end marker and no start
\* marker changes the scanner state when the block of that marker is the
\* active one, and leaves the state as it was when another state is active.
C29_EndMarkerOwnBlock ==
    \A em \in TempEndMarkers :
        (/\ editor = "temp" /\ LineRead /\ last.err = "none"
         /\ Contains(em.marker, last.line) /\ ~HasTempStartMarker(last.line)
         /\ \A other \in TempEndMarkers \ {em} : ~Contains(other.marker, last.line))
            => TempState = IF last.state = em.closes THEN em.next ELSE last.state

HasTempMarker(line) ==
    HasTempStartMarker(line) \/ \E em \in TempEndMarkers : Contains(em.marker, line)

\* The line that opened the block line n lies in: the last marker line before n
BlockStart(n) ==
    LET ms == {j \in 1..(n - 1) : HasTempMarker(deck[j])} IN
    IF ms = {} THEN 0 ELSE CHOOSE j \in ms : \A k \in ms : j >= k

\* The material headers of the block of line n, up to and including line n
HeadersUpTo(n) ==
    {j \in (BlockStart(n) + 1)..n : StartsWith(deck[j], "m")}

\* The id of the most recent header of the block is a target material id
GoverningHeaderIsTarget(n) ==
    LET hs == HeadersUpTo(n) IN
    /\ hs # {}
    /\ LET h == CHOOSE j \in hs : \A k \in hs : j >= k IN
       /\ Digits(split(deck[h])[1]) # ""
       /\ NatVal(Digits(split(deck[h])[1])) \in DictKeys(arg)

\* C30: a non-comment line read in the Materials block is rewritten exactly
\* when the most recent material header of the same block, the line itself
\* included, names a target material; a line before any header of the
\* current block is not rewritten.
C30_MaterialIdTracking ==
    (/\ editor = "temp" /\ LineRead /\ last.state = "Materials" /\ last.err = "none"
     /\ split(last.line) # <<>> /\ split(last.line)[1] # "c"
     /\ ~HasTempMarker(last.line))
        => (Len(last.wrote) = 2 <=> GoverningHeaderIsTarget(last.n))

RECURSIVE DensitySuffixes(_, _)
\* The suffixes -m<id>-<density without dots> of the entries from i on
DensitySuffixes(d, i) ==
    IF i > Len(d) THEN ""
    ELSE "-m" \o d[i].key.text \o "-" \o Without(str_float(d[i].val), ".")
             \o DensitySuffixes(d, i + 1)

\* C23: the output name of a density call is <filepath>/<folder>/<module>,
\* then one suffix per entry in order, then ".i", for any filepath.
C23_DensityName ==
    (editor = "dens" /\ nm_call # <<>>)
        => nm_name[1] = nm_call[1].filepath \o "/" \o inputs_folder_name \o "/"
                            \o module_name \o DensitySuffixes(nm_call[1].arg, 1) \o ".i"

\* C27: two calls of one editor with the same filepath that derive the same
\* output name have the same spec.
C27_NamesDistinguishSpecs ==
    \A c1, c2 \in nm_seen :
        (c1.filepath = c2.filepath /\ c1.name = c2.name) => c1.arg = c2.arg

\* C25: in a row whose difference to the self-reference value is zero, as
\* used as the divisor, every relative-change result is zero and no division
\* by zero has been performed.
C25_ZeroDifferenceGuard ==
    (co_out # <<>> /\ co_out[1].diff = 0)
        => \A i \in 1..Len(co_out[1].cols) :
               /\ co_out[1].cols[i].zero
               /\ 0 \notin co_out[1].cols[i].divisors

\* The task has passed open(new_input_name, 'w+')
HasOpened(i) ==
    \/ tasks[i].pc = "loop"
    \/ tasks[i].pc = "done" /\ tasks[i].result \notin {"False", "FileExistsError"}

\* C31: of two concurrent calls with the same spec and output directory, at
\* most one opens the output deck for writing, in every interleaving; the
\* other returns False.
C31_OneWriterPerOutput ==
    \A i, j \in 1..MaxTasks :
        (i # j /\ tasks[i].arg = tasks[j].arg)
            => /\ ~(HasOpened(i) /\ HasOpened(j))
               /\ (tasks[i].pc = "done" /\ tasks[j].pc = "done"
                   /\ tasks[i].result = "True") => tasks[j].result = "False"

====
